---- MODULE Spec2Model ----
(***************************************************************************)
(* Expense categorizer: the three command-line programs of the repository  *)
(* and the files they share under models/.                                 *)
(*                                                                         *)
(*   features.py  : CSV -> TF-IDF features, labels, fitted vectorizer      *)
(*   (training)   : X_features.pkl, y_labels.pkl -> expense_model.pkl      *)
(*   predict.py   : expense_model.pkl, tfidf_vectorizer.pkl -> predictions *)
(*                                                                         *)
(* A description is a string of words separated by blanks, modelled as the *)
(* sequence of its words; the empty sequence is the empty string.  Real    *)
(* numbers are fixed-point integers in units of 1/Scale.                   *)
(***************************************************************************)
EXTENDS Integers, Sequences, FiniteSets, TLC

VARIABLES
    vecFile,    \* models/tfidf_vectorizer.pkl
    XFile,      \* models/X_features.pkl
    yFile,      \* models/y_labels.pkl
    modelFile,  \* models/expense_model.pkl
    out         \* the running program: its inputs, locals, output and exception

vars == <<vecFile, XFile, yFile, modelFile, out>>
files == <<vecFile, XFile, yFile, modelFile>>

\* ------------------------------------------------------------------ bounds
MaxRows == 2        \* rows of one CSV file
MaxTokens == 3      \* tokens of one CSV file, or of one --text argument

\* fixed-point unit of the float64 values (idf, tf-idf, probabilities)
Scale == 1000

\* ------------------------------------------------------------------ text
Words == {"coffee", "rent", "the"}

\* str.lower() on the raw tokens the model uses
Lowercase(w) ==
    CASE w = "Coffee" -> "coffee"
      [] w = "Rent" -> "rent"
      [] OTHER -> w

\* the members of sklearn's English stop list among the tokens of the model
StopWords == {"the"}

\* sorted() of Python strings, restricted to the lowercase terms of the model
TermRank(t) ==
    CASE t = "coffee" -> 1
      [] t = "rent" -> 2
      [] OTHER -> 3

LabelRank(l) ==
    CASE l = "Food & Drink" -> 1
      [] l = "Housing" -> 2
      [] OTHER -> 3

\* the descriptions of exactly n tokens, and of at most n tokens
DocsOfLen(n) == [1..n -> Words]

DocsUpTo(n) == UNION {DocsOfLen(k) : k \in 0..n}

\* the description columns of exactly k rows holding at most budget tokens
RECURSIVE Columns(_, _)
Columns(k, budget) ==
    IF k = 0 THEN {<<>>}
    ELSE UNION {{<<d>> \o rest : d \in DocsOfLen(n),
                                 rest \in Columns(k - 1, budget - n)} :
                n \in 0..budget}

\* ------------------------------------------------------------------ load_data.py
CATEGORY_MAP(w) ==
    CASE w = "coffee" -> "Food & Drink"
      [] w = "groceries" -> "Food & Drink"
      [] w = "internet" -> "Utilities"
      [] w = "rent" -> "Housing"
      [] w = "movie" -> "Entertainment"
      [] OTHER -> "Other"

\* df['description'].str.lower().map(CATEGORY_MAP).fillna("Other"): the whole
\* description is the key, so only a one-word description can match
categorize_expenses(doc) ==
    IF Len(doc) = 1 THEN CATEGORY_MAP(Lowercase(doc[1])) ELSE "Other"

\* ------------------------------------------------------------------ numerics
RECURSIVE SumSeq(_)
SumSeq(s) == IF s = <<>> THEN 0 ELSE Head(s) + SumSeq(Tail(s))

\* numpy max of a non-empty vector, as a left-to-right reduction
RECURSIVE MaxFrom(_, _)
MaxFrom(m, s) ==
    IF s = <<>> THEN m
    ELSE MaxFrom(IF Head(s) > m THEN Head(s) ELSE m, Tail(s))

SeqMax(s) == MaxFrom(Head(s), Tail(s))

\* numpy argmax: the first index holding the maximum
ArgMax(s) == CHOOSE i \in 1..Len(s) :
    /\ s[i] = SeqMax(s)
    /\ \A k \in 1..(i - 1) : s[k] # s[i]

RECURSIVE Newton(_, _)
Newton(n, x) ==
    LET y == (x + n \div x) \div 2
    IN IF y >= x THEN x ELSE Newton(n, y)

\* floor of the square root
ISqrt(n) == IF n = 0 THEN 0 ELSE Newton(n, n)

\* Scale * ln(a / b) for a >= b >= 1, by ln x = 2 atanh((x - 1) / (x + 1))
LnScaled(a, b) ==
    LET U == 10 * Scale
        z == ((a - b) * U) \div (a + b)
        zz == (z * z) \div U
        t3 == (z * zz) \div U
        t5 == (t3 * zz) \div U
        t7 == (t5 * zz) \div U
        t9 == (t7 * zz) \div U
        t11 == (t9 * zz) \div U
        t13 == (t11 * zz) \div U
    IN (2 * (z + t3 \div 3 + t5 \div 5 + t7 \div 7 + t9 \div 9
             + t11 \div 11 + t13 \div 13) + 5) \div 10

\* ------------------------------------------------------------------ TfidfVectorizer
\* build_analyzer(): lowercase, tokenize, drop the English stop words
Analyze(doc) ==
    SelectSeq([i \in 1..Len(doc) |-> Lowercase(doc[i])],
              LAMBDA t : t \notin StopWords)

\* pd.read_csv parses an empty field as NaN
IsNaN(cell) == Len(cell) = 0

Count(t, tokens) == Cardinality({i \in 1..Len(tokens) : tokens[i] = t})

IndexOf(t, vocabulary) == CHOOSE j \in 1..Len(vocabulary) : vocabulary[j] = t

InVocabulary(t, vocabulary) == \E j \in 1..Len(vocabulary) : vocabulary[j] = t

\* vocabulary.__getitem__ of the defaultdict: a new term takes the next index
RECURSIVE AddTerms(_, _)
AddTerms(vocabulary, tokens) ==
    IF tokens = <<>> THEN vocabulary
    ELSE AddTerms(IF InVocabulary(Head(tokens), vocabulary)
                  THEN vocabulary
                  ELSE Append(vocabulary, Head(tokens)),
                  Tail(tokens))

RECURSIVE GrowVocabulary(_, _)
GrowVocabulary(vocabulary, raw_documents) ==
    IF raw_documents = <<>> THEN vocabulary
    ELSE GrowVocabulary(AddTerms(vocabulary, Analyze(Head(raw_documents))),
                        Tail(raw_documents))

\* term counts of the documents over a given vocabulary; other terms are skipped
CountMatrix(vocabulary, raw_documents) ==
    [i \in 1..Len(raw_documents) |->
        [j \in 1..Len(vocabulary) |->
            Count(vocabulary[j], Analyze(raw_documents[i]))]]

\* CountVectorizer._count_vocab(raw_documents, fixed_vocab=False)
CountVocab(raw_documents) ==
    LET vocabulary == GrowVocabulary(<<>>, raw_documents)
    IN [vocabulary |-> vocabulary, X |-> CountMatrix(vocabulary, raw_documents)]

\* sorted(vocabulary)
RECURSIVE Insert(_, _)
Insert(t, sorted) ==
    IF sorted = <<>> THEN <<t>>
    ELSE IF TermRank(t) <= TermRank(Head(sorted)) THEN <<t>> \o sorted
    ELSE <<Head(sorted)>> \o Insert(t, Tail(sorted))

RECURSIVE SortTerms(_)
SortTerms(vocabulary) ==
    IF vocabulary = <<>> THEN <<>>
    ELSE Insert(Head(vocabulary), SortTerms(Tail(vocabulary)))

\* a faulty variant of SortFeatures: the vocabulary is re-indexed, the columns are not moved
SortFeaturesKeepColumns(X, vocabulary) ==
    [vocabulary |-> SortTerms(vocabulary), X |-> X]

\* CountVectorizer._sort_features: re-index the terms in sorted order and move
\* each column to its term's new index
SortFeatures(X, vocabulary) ==
    LET sorted == SortTerms(vocabulary)
    IN [vocabulary |-> sorted,
        X |-> [i \in 1..Len(X) |->
                 [j \in 1..Len(sorted) |-> X[i][IndexOf(sorted[j], vocabulary)]]]]

\* TfidfTransformer.fit with smooth_idf: idf = ln((1 + n) / (1 + df)) + 1
TfidfFit(X, n_features) ==
    LET n == Len(X)
        df(j) == Cardinality({i \in 1..n : X[i][j] > 0})
    IN [j \in 1..n_features |-> LnScaled(1 + n, 1 + df(j)) + Scale]

\* sklearn.preprocessing.normalize(norm="l2"): a zero row is left as it is
Normalize(row) ==
    LET norm == ISqrt(SumSeq([j \in 1..Len(row) |-> row[j] * row[j]]))
    IN IF norm = 0 THEN row
       ELSE [j \in 1..Len(row) |-> (row[j] * Scale) \div norm]

\* a faulty variant of TfidfTransform: norm=None, the raw tf * idf products
TfidfTransformRaw(X, idf) ==
    [i \in 1..Len(X) |-> [j \in 1..Len(idf) |-> X[i][j] * idf[j]]]

\* TfidfTransformer.transform with the defaults of TfidfVectorizer(stop_words=
\* "english"): use_idf, sublinear_tf=False, norm="l2"
TfidfTransform(X, idf) ==
    [i \in 1..Len(X) |-> Normalize([j \in 1..Len(idf) |-> X[i][j] * idf[j]])]

Unfitted == [exists |-> FALSE, vocabulary_ |-> <<>>, idf_ |-> <<>>]

\* a faulty variant of FitTransform: no check of the vocabulary built
FitTransformUnchecked(raw_documents) ==
    LET counted == CountVocab(raw_documents)
        sorted == SortFeatures(counted.X, counted.vocabulary)
        idf == TfidfFit(sorted.X, Len(sorted.vocabulary))
    IN [error |-> "none",
        X |-> TfidfTransform(sorted.X, idf),
        self |-> [exists |-> TRUE, vocabulary_ |-> sorted.vocabulary, idf_ |-> idf]]

\* TfidfVectorizer(stop_words="english").fit_transform(raw_documents)
FitTransform(raw_documents) ==
    IF \E i \in 1..Len(raw_documents) : IsNaN(raw_documents[i])
    THEN \* "np.nan is an invalid document"
         [error |-> "ValueError", X |-> <<>>, self |-> Unfitted]
    ELSE LET counted == CountVocab(raw_documents)
         IN IF counted.vocabulary = <<>>
            THEN \* "empty vocabulary; perhaps the documents only contain stop words"
                 [error |-> "ValueError", X |-> <<>>, self |-> Unfitted]
            ELSE LET sorted == SortFeatures(counted.X, counted.vocabulary)
                     idf == TfidfFit(sorted.X, Len(sorted.vocabulary))
                 IN [error |-> "none",
                     X |-> TfidfTransform(sorted.X, idf),
                     self |-> [exists |-> TRUE,
                               vocabulary_ |-> sorted.vocabulary,
                               idf_ |-> idf]]

\* a faulty variant of Transform: the terms of the documents are added to the vocabulary,
\* as _count_vocab does when fixed_vocab is False
TransformGrowing(self, raw_documents) ==
    LET grown == GrowVocabulary(self.vocabulary_, raw_documents)
        idf == [j \in 1..Len(grown) |->
                   IF j <= Len(self.idf_) THEN self.idf_[j] ELSE Scale]
    IN [error |-> "none",
        X |-> TfidfTransform(CountMatrix(grown, raw_documents), idf),
        self |-> [exists |-> TRUE, vocabulary_ |-> grown, idf_ |-> idf]]

\* vectorizer.transform(raw_documents) on a fitted vectorizer: the counts over
\* the fixed vocabulary (fixed_vocab=True), then the tf-idf transform; "self" is
\* the vectorizer object after the call
Transform(self, raw_documents) ==
    IF \E i \in 1..Len(raw_documents) : IsNaN(raw_documents[i])
    THEN [error |-> "ValueError", X |-> <<>>, self |-> self]
    ELSE [error |-> "none",
          X |-> TfidfTransform(CountMatrix(self.vocabulary_, raw_documents),
                               self.idf_),
          self |-> self]

\* ------------------------------------------------------------------ features.py
\* load_data(file_path): the DataFrame read, or the exception raised
load_data(file) ==
    IF ~file.exists THEN [error |-> "FileNotFoundError", df |-> file]
    ELSE IF Len(file.rows) = 0
    THEN \* df.empty
         [error |-> "ValueError", df |-> file]
    ELSE IF ~({"description", "category"} \subseteq file.columns)
    THEN [error |-> "ValueError", df |-> file]
    ELSE [error |-> "none", df |-> file]

Column(df, name) == [i \in 1..Len(df.rows) |-> df.rows[i][name]]

\* extract_features(df) -> (X_features, y_labels, vectorizer)
extract_features(df) ==
    LET fitted == FitTransform(Column(df, "description"))
    IN [error |-> fitted.error,
        X |-> fitted.X,
        y |-> Column(df, "category"),
        vectorizer |-> fitted.self]

\* a faulty variant of save_features: a vectorizer already saved is not overwritten
save_features_once(X, y, vectorizer, save) ==
    IF save /\ ~vecFile.exists
    THEN <<vectorizer, [exists |-> TRUE, X |-> X], [exists |-> TRUE, y |-> y]>>
    ELSE <<vecFile, XFile, yFile>>

\* save_features(X, y, vectorizer, save): the three files under models/ after it
save_features(X, y, vectorizer, save) ==
    IF ~save THEN <<vecFile, XFile, yFile>>
    ELSE <<vectorizer, [exists |-> TRUE, X |-> X], [exists |-> TRUE, y |-> y]>>

Idle ==
    [op |-> "idle", error |-> "none", mode |-> "none", docs |-> <<>>,
     X |-> <<>>, vectorizer |-> Unfitted, labels |-> <<>>,
     confidence |-> <<>>, printed |-> <<>>]

\* features.py main(): --data file [--no-save]
FeaturesMain(file, save) ==
    /\ out.op = "idle"
    /\ LET loaded == load_data(file)
           run == [Idle EXCEPT !.op = "features",
                               !.mode = IF save THEN "save" ELSE "no-save"]
       IN IF loaded.error # "none"
          THEN /\ out' = [run EXCEPT !.error = loaded.error]
               /\ UNCHANGED <<vecFile, XFile, yFile>>
          ELSE LET f == extract_features(loaded.df)
                   seen == [run EXCEPT !.docs = Column(loaded.df, "description")]
               IN IF f.error # "none"
                  THEN /\ out' = [seen EXCEPT !.error = f.error]
                       /\ UNCHANGED <<vecFile, XFile, yFile>>
                  ELSE /\ out' = [seen EXCEPT !.X = f.X,
                                              !.labels = f.y,
                                              !.vectorizer = f.vectorizer]
                       /\ LET saved == save_features(f.X, f.y, f.vectorizer, save)
                          IN /\ vecFile' = saved[1]
                             /\ XFile' = saved[2]
                             /\ yFile' = saved[3]
    /\ UNCHANGED modelFile

\* the program returns to the shell
Exit ==
    /\ out.op # "idle"
    /\ out' = Idle
    /\ UNCHANGED files

\* ------------------------------------------------------------------ classifier
\* The training program and the estimator it fits are not among the sources;
\* the classifier is the capability of the design: fit(X, y), predict(X),
\* predict_proba(X), over the sorted classes seen at fit time.
NoModel ==
    [exists |-> FALSE, classes_ |-> <<>>, class_count_ |-> <<>>,
     feature_sum_ |-> <<>>, n_features_in_ |-> 0]

RECURSIVE InsertLabel(_, _)
InsertLabel(l, sorted) ==
    IF sorted = <<>> THEN <<l>>
    ELSE IF l = Head(sorted) THEN sorted
    ELSE IF LabelRank(l) < LabelRank(Head(sorted)) THEN <<l>> \o sorted
    ELSE <<Head(sorted)>> \o InsertLabel(l, Tail(sorted))

\* np.unique(y)
RECURSIVE UniqueLabels(_)
UniqueLabels(y) ==
    IF y = <<>> THEN <<>>
    ELSE InsertLabel(Head(y), UniqueLabels(Tail(y)))

ClassifierFit(X, y) ==
    LET classes == UniqueLabels(y)
        n_features == Len(X[1])
        members(c) == {i \in 1..Len(y) : y[i] = classes[c]}
    IN [exists |-> TRUE,
        classes_ |-> classes,
        class_count_ |-> [c \in 1..Len(classes) |-> Cardinality(members(c))],
        feature_sum_ |-> [c \in 1..Len(classes) |->
            [j \in 1..n_features |->
                SumSeq([i \in 1..Len(y) |-> IF y[i] = classes[c] THEN X[i][j] ELSE 0])]],
        n_features_in_ |-> n_features]

\* predict_proba(X): one distribution over classes_ for each row
PredictProba(model, X) ==
    [i \in 1..Len(X) |->
        LET score == [c \in 1..Len(model.classes_) |->
                        model.class_count_[c] * Scale
                        + SumSeq([j \in 1..Len(X[i]) |->
                              (X[i][j] * model.feature_sum_[c][j]) \div Scale])]
            total == SumSeq(score)
        IN [c \in 1..Len(model.classes_) |-> (score[c] * Scale) \div total]]

\* predict(X): the class of the largest probability, the first on a tie
Predict(model, X) ==
    LET proba == PredictProba(model, X)
    IN [i \in 1..Len(X) |-> model.classes_[ArgMax(proba[i])]]

\* the training program: fit on the saved features and labels, save the model
TrainMain ==
    /\ out.op = "idle"
    /\ IF XFile.exists /\ yFile.exists
       THEN /\ modelFile' = ClassifierFit(XFile.X, yFile.y)
            /\ out' = [Idle EXCEPT !.op = "train"]
       ELSE /\ out' = [Idle EXCEPT !.op = "train", !.error = "FileNotFoundError"]
            /\ UNCHANGED modelFile
    /\ UNCHANGED <<vecFile, XFile, yFile>>

\* ------------------------------------------------------------------ predict.py
\* a faulty variant of joblib_load: a missing file gives a new, unfitted object, and
\* its first use raises sklearn's NotFittedError
joblib_load_default(model, vectorizer) ==
    IF ~model.exists \/ ~vectorizer.exists THEN "NotFittedError" ELSE "none"

\* model = joblib.load(...); vectorizer = joblib.load(...)
joblib_load(model, vectorizer) ==
    IF ~model.exists \/ ~vectorizer.exists THEN "FileNotFoundError" ELSE "none"

\* a faulty variant of MaxAxis1: .max() over the whole matrix, broadcast to the column
MaxAll(proba) ==
    [i \in 1..Len(proba) |->
        SeqMax([k \in 1..Len(proba) |-> SeqMax(proba[k])])]

\* predict_proba(X).max(axis=1)
MaxAxis1(proba) == [i \in 1..Len(proba) |-> SeqMax(proba[i])]

Reverse(s) == [i \in 1..Len(s) |-> s[Len(s) + 1 - i]]

\* f"{confidence:.2f}": the confidence in hundredths
Format2f(confidence) == (confidence * 100 + Scale \div 2) \div Scale

\* a truthy argparse string: given and not empty
Truthy(arg) == arg.given /\ Len(arg.value) > 0

\* a faulty variant of PredictData: the labels are those of the rows in reverse order
PredictDataReversed(model, vectorizer, df) ==
    LET run == [Idle EXCEPT !.op = "predict", !.mode = "data",
                            !.vectorizer = vectorizer]
        t == Transform(vectorizer, Column(df, "description"))
    IN IF "description" \notin df.columns \/ t.error # "none"
          \/ model.n_features_in_ # Len(t.self.vocabulary_)
       THEN [run EXCEPT !.error = "ValueError"]
       ELSE [run EXCEPT !.X = t.X,
                        !.vectorizer = t.self,
                        !.labels = Reverse(Predict(model, t.X)),
                        !.confidence = MaxAxis1(PredictProba(model, t.X))]

\* the --data branch: the predicted_category and confidence columns written
PredictData(model, vectorizer, df) ==
    LET run == [Idle EXCEPT !.op = "predict", !.mode = "data",
                            !.vectorizer = vectorizer]
    IN IF "description" \notin df.columns
       THEN [run EXCEPT !.error = "ValueError"]
       ELSE LET t == Transform(vectorizer, Column(df, "description"))
            IN IF t.error # "none"
               THEN [run EXCEPT !.error = t.error, !.vectorizer = t.self]
               ELSE IF model.n_features_in_ # Len(t.self.vocabulary_)
               THEN [run EXCEPT !.error = "DimensionMismatchError",
                                !.X = t.X, !.vectorizer = t.self]
               ELSE [run EXCEPT !.X = t.X,
                                !.vectorizer = t.self,
                                !.labels = Predict(model, t.X),
                                !.confidence = MaxAxis1(PredictProba(model, t.X))]

\* the --text branch: prediction and confidence, and the confidence printed
PredictText(model, vectorizer, text) ==
    LET run == [Idle EXCEPT !.op = "predict", !.mode = "text",
                            !.vectorizer = vectorizer]
        t == Transform(vectorizer, <<text>>)
    IN IF model.n_features_in_ # Len(t.self.vocabulary_)
       THEN [run EXCEPT !.error = "DimensionMismatchError",
                        !.X = t.X, !.vectorizer = t.self]
       ELSE LET probs == PredictProba(model, t.X)[1]
                prediction == Predict(model, t.X)[1]
                confidence == SeqMax(probs)
            IN [run EXCEPT !.X = t.X,
                           !.vectorizer = t.self,
                           !.labels = <<prediction>>,
                           !.confidence = <<confidence>>,
                           !.printed = <<Format2f(confidence)>>]

\* the documents handed to predict.py: the description column of --data, else
\* the --text string
GivenDocs(args) ==
    IF args.data.given
    THEN IF "description" \in args.data.columns
         THEN Column(args.data, "description") ELSE <<>>
    ELSE IF args.text.given THEN <<args.text.value>> ELSE <<>>

\* what main() does with the loaded model and vectorizer
PredictBranches(model, vectorizer, args) ==
    IF Truthy(args.data) THEN PredictData(model, vectorizer, args.data)
    ELSE IF Truthy(args.text) THEN PredictText(model, vectorizer, args.text.value)
    ELSE [Idle EXCEPT !.op = "predict", !.error = "ValueError",
                      !.vectorizer = vectorizer]

\* predict.py main(): --data file | --text description; out.docs records the
\* documents it was given
PredictMain(args) ==
    /\ out.op = "idle"
    /\ LET loaded == joblib_load(modelFile, vecFile)
           result == IF loaded # "none"
                     THEN [Idle EXCEPT !.op = "predict", !.error = loaded]
                     ELSE PredictBranches(modelFile, vecFile, args)
       IN out' = [result EXCEPT !.docs = GivenDocs(args)]
    /\ UNCHANGED files

\* ------------------------------------------------------------------ inputs
Labelled(description, category) ==
    [description |-> description, category |-> category]

Csv(columns, rows) == [exists |-> TRUE, columns |-> columns, rows |-> rows]

\* the training files at hand for features.py in the full pipeline
TrainingFiles ==
    { Csv({"description", "category"},
          <<Labelled(<<"coffee">>, "Food & Drink"), Labelled(<<"rent">>, "Housing")>>),
      Csv({"description", "category"},
          <<Labelled(<<"Rent", "coffee">>, "Housing"),
            Labelled(<<"coffee", "coffee">>, "Food & Drink")>>),
      Csv({"description", "category"},
          <<Labelled(<<"the", "coffee">>, "Food & Drink")>>),
      Csv({"description", "category"}, <<Labelled(<<"the">>, "Other")>>),
      Csv({"description", "category"}, <<>>),
      Csv({"description"}, <<[description |-> <<"coffee">>]>>),
      [exists |-> FALSE, columns |-> {}, rows |-> <<>>] }

\* every training CSV within the bounds, labelled by categorize_expenses
AllTrainingFiles ==
    { Csv({"description", "category"},
          [i \in 1..Len(col) |-> Labelled(col[i], categorize_expenses(col[i]))]) :
      col \in UNION {Columns(k, MaxTokens) : k \in 0..MaxRows} }

NotGiven == [given |-> FALSE, value |-> <<>>, columns |-> {}, rows |-> <<>>]

\* --data: a CSV of descriptions of 1..MaxRows rows, or one without the column
DataArgs ==
    { [given |-> TRUE, value |-> <<"predict.csv">>, columns |-> {"description"},
       rows |-> [i \in 1..Len(col) |-> [description |-> col[i]]]] :
      col \in UNION {Columns(k, MaxTokens) : k \in 1..MaxRows} }
    \cup { [given |-> TRUE, value |-> <<"predict.csv">>, columns |-> {"date"},
            rows |-> <<[date |-> <<>>]>>] }

\* --text: any description within the bounds, the empty string included
TextArgs ==
    { [given |-> TRUE, value |-> d, columns |-> {}, rows |-> <<>>] :
      d \in DocsUpTo(MaxTokens) }

PredictArgs ==
    { [data |-> d, text |-> NotGiven] : d \in DataArgs }
    \cup { [data |-> NotGiven, text |-> t] : t \in TextArgs \cup {NotGiven} }
    \cup { [data |-> d, text |-> t] :
           d \in {a \in DataArgs : Len(a.rows) = 1},
           t \in {a \in TextArgs : Len(a.value) = 1} }

\* ------------------------------------------------------------------ specifications
Init ==
    /\ vecFile = Unfitted
    /\ XFile = [exists |-> FALSE, X |-> <<>>]
    /\ yFile = [exists |-> FALSE, y |-> <<>>]
    /\ modelFile = NoModel
    /\ out = Idle

Features == \E file \in TrainingFiles, save \in BOOLEAN : FeaturesMain(file, save)

Predicts == \E args \in PredictArgs : PredictMain(args)

Next == Features \/ TrainMain \/ Predicts \/ Exit

\* the whole pipeline, the three programs run in any order
Spec == Init /\ [][Next]_vars

FirstFeatures ==
    \E file \in AllTrainingFiles, save \in BOOLEAN :
        ~vecFile.exists /\ FeaturesMain(file, save)

NextFeatures == FirstFeatures \/ Exit

\* feature extraction alone, on every training CSV within the bounds
SpecFeatures == Init /\ [][NextFeatures]_vars

\* ------------------------------------------------------------------ properties
Fitted == vecFile.exists /\ modelFile.exists

Terms(doc) == {Analyze(doc)[k] : k \in 1..Len(Analyze(doc))}

TermSet(docs) == UNION {Terms(docs[i]) : i \in 1..Len(docs)}

Range(s) == {s[j] : j \in 1..Len(s)}

\* the corpus gives no term: no rows, or rows of stop words and empty fields only
EmptyCorpus(docs) == \A i \in 1..Len(docs) : Terms(docs[i]) = {}

\* a corpus fit accepts: no empty field, and at least one term
Usable(docs) ==
    /\ \A i \in 1..Len(docs) : ~IsNaN(docs[i])
    /\ ~EmptyCorpus(docs)

\* v lists the terms of docs once each, in sorted order
IsVocabularyOf(v, docs) ==
    /\ Range(v) = TermSet(docs)
    /\ \A j, k \in 1..Len(v) : j < k => TermRank(v[j]) < TermRank(v[k])

\* the smoothed idf of term t over docs
IdfOf(t, docs) ==
    LnScaled(1 + Len(docs),
             1 + Cardinality({i \in 1..Len(docs) : t \in Terms(docs[i])})) + Scale

\* vec is what a fit on docs alone leaves
IsFitOf(vec, docs) ==
    /\ vec.exists
    /\ IsVocabularyOf(vec.vocabulary_, docs)
    /\ Len(vec.idf_) = Len(vec.vocabulary_)
    /\ \A j \in 1..Len(vec.idf_) : vec.idf_[j] = IdfOf(vec.vocabulary_[j], docs)

\* the class distribution of one document under the files on disk
Dist(doc) == PredictProba(modelFile, Transform(vecFile, <<doc>>).X)[1]

\* m is the largest value of the distribution d
IsMaxOf(m, d) ==
    /\ \E c \in 1..Len(d) : d[c] = m
    /\ \A c \in 1..Len(d) : d[c] <= m

Predicted == out.op = "predict" /\ out.error = "none"

Extracted == out.op = "features" /\ out.error = "none"

\* C1 as stated: an inference call made while the pipeline is unfitted fails
\* with NotFittedError.
C1_NotFittedError ==
    (out.op = "predict" /\ ~Fitted) => out.error = "NotFittedError"

\* C1, amended: an inference call (--text or --data) made while the vectorizer
\* or the model has not been saved fails with FileNotFoundError, raised by
\* joblib.load, and yields no label and no confidence.
C1_UnfittedFails ==
    (out.op = "predict" /\ ~Fitted) =>
        /\ out.error = "FileNotFoundError"
        /\ out.labels = <<>>
        /\ out.confidence = <<>>
        /\ out.printed = <<>>

\* predict.py was given a known description while only the vectorizer is saved
C1_Witness ==
    /\ out.op = "predict"
    /\ vecFile.exists /\ ~modelFile.exists
    /\ out.docs # <<>>
    /\ \E t \in Terms(out.docs[1]) : InVocabulary(t, vecFile.vocabulary_)

C3_VocabularyFreeze ==
    [][(out.op = "idle" /\ out'.op = "predict" /\ Fitted)
       => (/\ vecFile' = vecFile
           /\ modelFile' = modelFile
           /\ out'.vectorizer = vecFile)]_vars

\* a batch of two descriptions was predicted, one of them holding a term the
\* vocabulary lacks
C3_Witness ==
    /\ Predicted /\ out.mode = "data" /\ Len(out.docs) = 2
    /\ \E i \in 1..2 : \E t \in Terms(out.docs[i]) :
           ~InVocabulary(t, vecFile.vocabulary_)

\* every term of every document is absent from the saved vocabulary
AllUnknown(docs) ==
    \A i \in 1..Len(docs) : \A t \in Terms(docs[i]) :
        ~InVocabulary(t, vecFile.vocabulary_)

\* C4: in the fitted state, documents made only of terms absent from the
\* vocabulary, the empty document included, are transformed without an error
\* into all-zero vectors of length |Vocabulary|, and the vocabulary does not
\* grow.
C4_UnknownTermRobust ==
    (out.op = "predict" /\ Fitted /\ out.docs # <<>> /\ AllUnknown(out.docs)) =>
        /\ out.error \in {"none", "DimensionMismatchError"}
        /\ Len(out.X) = Len(out.docs)
        /\ \A i \in 1..Len(out.X) :
               out.X[i] = [j \in 1..Len(vecFile.vocabulary_) |-> 0]
        /\ out.vectorizer = vecFile

C8_FitTransformIsFitThenTransform ==
    Extracted =>
        /\ Transform(out.vectorizer, out.docs).error = "none"
        /\ Transform(out.vectorizer, out.docs).X = out.X
        /\ \A i \in 1..Len(out.X) : Len(out.X[i]) = Len(out.vectorizer.vocabulary_)
        /\ out.mode = "save" =>
               /\ XFile.X = out.X
               /\ \A i \in 1..Len(out.docs) :
                      Transform(vecFile, <<out.docs[i]>>).X = <<XFile.X[i]>>

\* two rows were extracted and saved whose terms first appear out of sorted
\* order
C8_Witness ==
    /\ Extracted /\ out.mode = "save" /\ Len(out.docs) = 2
    /\ GrowVocabulary(<<>>, out.docs) # vecFile.vocabulary_
    /\ Len(vecFile.vocabulary_) = 2

\* C9 as stated: every entry of a feature vector is the raw count of the term
\* in the document times the term's IDF weight, without normalization.
C9_RawTfIdf ==
    Extracted =>
        \A i \in 1..Len(out.docs) : \A j \in 1..Len(out.vectorizer.vocabulary_) :
            out.X[i][j] = Count(out.vectorizer.vocabulary_[j], Analyze(out.docs[i]))
                          * IdfOf(out.vectorizer.vocabulary_[j], out.docs)

\* C9, amended: every entry of a feature vector is the raw count of the term
\* times the term's IDF weight, divided by the L2 norm of the document's
\* vector of such products (TfidfVectorizer's default norm="l2"); a row
\* without known terms is all zero.
C9_NormalizedTfIdf ==
    Extracted =>
        /\ Len(out.X) = Len(out.docs)
        /\ \A i \in 1..Len(out.docs) :
               LET v == out.vectorizer.vocabulary_
                   raw == [j \in 1..Len(v) |->
                              Count(v[j], Analyze(out.docs[i])) * IdfOf(v[j], out.docs)]
                   norm == ISqrt(SumSeq([j \in 1..Len(v) |-> raw[j] * raw[j]]))
               IN /\ Len(out.X[i]) = Len(v)
                  /\ \A j \in 1..Len(v) :
                         out.X[i][j] = IF norm = 0 THEN 0
                                       ELSE (raw[j] * Scale) \div norm

\* a row was extracted that holds one term twice and another term once
C9_Witness ==
    /\ Extracted
    /\ \E i \in 1..Len(out.docs) :
           /\ Count("coffee", Analyze(out.docs[i])) = 2
           /\ Count("rent", Analyze(out.docs[i])) = 1

\* what the --text path gives for one document under the files on disk
TextOutcome(doc) ==
    LET r == PredictBranches(modelFile, vecFile,
                 [data |-> NotGiven,
                  text |-> [given |-> TRUE, value |-> doc,
                            columns |-> {}, rows |-> <<>>]])
    IN IF r.error = "none" THEN <<"ok", r.labels[1], r.confidence[1]>>
       ELSE <<"error">>

\* what the --data path gave for its row i
BatchOutcome(i) ==
    IF out.error = "none" /\ i <= Len(out.labels) /\ i <= Len(out.confidence)
    THEN <<"ok", out.labels[i], out.confidence[i]>>
    ELSE <<"error">>

\* C10: in the fitted state the batch path gives one (label, confidence) for
\* each input document, in input order, and the i-th is what the text path
\* gives for the i-th document alone, whatever the other rows are.
C10_BatchEqualsPointwise ==
    (out.op = "predict" /\ out.mode = "data" /\ Fitted /\ out.docs # <<>>) =>
        \A i \in 1..Len(out.docs) : BatchOutcome(i) = TextOutcome(out.docs[i])

====
